---- MODULE Spec2Model ----
(***************************************************************************)
(* levelcache: a two-tier read-through cache (process-local tier in front  *)
(* of a shared Redis tier) with a version counter per entity, a background *)
(* invalidation worker per instance and a lock-guarded Refresh task.       *)
(*                                                                         *)
(* The model follows the latest revision of the cache, the one with        *)
(* versionInfo notifications (src/cache_test.go lines 60-313).  The two    *)
(* older revisions (src/cache.go, src/unnamed/part_000) differ in the      *)
(* notification payload and in the key of the remote value read.           *)
(*                                                                         *)
(* Strings are sequences of tokens, so that key construction, the JSON     *)
(* codec and the base-10 codec of the version counter are computed and     *)
(* two keys are equal exactly when their strings are.                      *)
(***************************************************************************)
EXTENDS Integers, Sequences, FiniteSets, TLC

\* ------------------------------------------------------------------ bounds

\* Number of operations begun in a behaviour: a call of Get, Refresh,
\* RegisterLoader, Start or Stop, or an event of the environment (a change
\* of the source of truth, an expiration, a Redis command that fails).
MaxOps == 3
\* The source of truth behind the loader holds a datum in 1..MaxData, or 0
\* when the loader has nothing for the key and returns an error.
MaxData == 2
\* cfg.MaxUpdateBuffer, the capacity of the notification queue.
MaxUpdateBuffer == 1

Instances == {"A", "B"}
\* The goroutines Refresh can spawn: one per operation at most.
RTasks == 1..MaxOps

\* An entity is (namespace, key).  For ("version", "version") the version
\* key that Refresh increments and the one that Get reads are the same
\* string; for ("dish", "1") they are not.
Entities == {<<"dish", "1">>, <<"version", "version">>}
Namespaces == {e[1] : e \in Entities}

\* ----------------------------------------------------------------- strings

cacheKeyJoint == "#$#"

RECURSIVE jointKey(_)
\* strings.Join(a, cacheKeyJoint) over a sequence of strings.
jointKey(a) ==
    IF Len(a) = 0 THEN << >>
    ELSE IF Len(a) = 1 THEN a[1]
    ELSE a[1] \o <<cacheKeyJoint>> \o jointKey(Tail(a))

\* A one-token string.
Str(s) == <<s>>

DataKey(e) == jointKey(<<Str(e[1]), Str(e[2])>>)
\* The version key read by checkCacheUpdate.
CheckVersionKey(e) == jointKey(<<Str(e[1]), Str(e[2]), Str("version")>>)
\* The version key incremented by Refresh.
RefreshVersionKey(e) == jointKey(<<Str("version"), DataKey(e)>>)
LockKey(e) == jointKey(<<Str("lock"), DataKey(e)>>)

Digits == <<"0", "1", "2", "3", "4", "5", "6", "7", "8", "9">>

IsDigit(ch) == \E d \in 1..10 : Digits[d] = ch
DigitVal(ch) == (CHOOSE d \in 1..10 : Digits[d] = ch) - 1

RECURSIVE FormatInt(_)
\* Base-10 text of a non-negative integer (Redis INCR stores it so).
FormatInt(n) ==
    IF n < 10 THEN <<Digits[n + 1]>>
    ELSE FormatInt(n \div 10) \o <<Digits[(n % 10) + 1]>>

\* strconv.ParseInt(s, 10, 64) succeeds on a non-empty string of digits.
ParseOk(s) == Len(s) > 0 /\ \A p \in 1..Len(s) : IsDigit(s[p])

RECURSIVE ParseInt(_)
ParseInt(s) ==
    IF Len(s) = 1 THEN DigitVal(s[1])
    ELSE 10 * ParseInt(SubSeq(s, 1, Len(s) - 1)) + DigitVal(s[Len(s)])

\* A cacheable object: the key it was loaded for and its datum.
Obj(key, d) == [Key |-> key, Data |-> d]
ZeroObj == Obj("", 0)

\* jsoniter.MarshalToString of an object.
toJsonLossy(obj) == <<"{", obj.Key, ":", "0", "}">>
toJson(obj) == <<"{", obj.Key, ":">> \o FormatInt(obj.Data) \o <<"}">>

\* jsoniter.UnmarshalFromString: content must be an encoded object.
UnmarshalOk(content) ==
    /\ Len(content) >= 5
    /\ content[1] = "{"
    /\ content[3] = ":"
    /\ content[Len(content)] = "}"
    /\ ParseOk(SubSeq(content, 4, Len(content) - 1))

Unmarshal(content) ==
    Obj(content[2], ParseInt(SubSeq(content, 4, Len(content) - 1)))

\* -------------------------------------------------------------- partial maps

Put(f, k, v) == [x \in (DOMAIN f) \cup {k} |-> IF x = k THEN v ELSE f[x]]
Del(f, k) == [x \in (DOMAIN f) \ {k} |-> f[x]]
EmptyMap == [x \in {} |-> << >>]

\* ------------------------------------------------------------------- state

VARIABLES
    loaders,    \* p.loaders of each instance: namespace -> loader
    c,          \* p.c of each instance, the local tier: key -> content
    version,    \* p.version of each instance, the shadow versions: key -> int
    updates,    \* p.updates of each instance: the queued versionInfo
    stop,       \* p.stop of each instance: signals buffered (capacity 1)
    closed,     \* whether the worker has closed p.stop and p.updates
    worker,     \* the goroutine of Start of each instance
    panicked,   \* whether the process of the instance has died of a panic
    rdb,        \* the Redis store shared by the instances: key -> string
    ttl,        \* the Redis keys that carry an expiration
    source,     \* the source of truth read by the loaders
    get,        \* the caller of Get of each instance, and what its call did
    refresh,    \* the goroutines of Refresh
    work,       \* the entity that the callers of this behaviour ask for
    used,       \* the number of operations begun so far
    calm,       \* per instance: nothing but its own Get has run since the
                \* call of the first Get of the current run of Gets
    loaded,     \* per instance: the keys for which a full-miss load of Get
                \* or a Refresh has succeeded on the instance
    registered  \* per instance: the last call of RegisterLoader, its result

vars == <<loaders, c, version, updates, stop, closed, worker, panicked,
          rdb, ttl, source, get, refresh, work, used, calm, loaded,
          registered>>

\* The loaders a caller registers: GetDish, which answers from the source of
\* truth, and GetNone, a DataLoader that returns an error for every key.
LoaderNames == {"GetDish", "GetNone"}

NoInfo == [dataKey |-> << >>, versionNo |-> 0]

IdleGet ==
    [pc |-> "idle", ent |-> <<"", "">>, obj |-> ZeroObj, info |-> NoInfo,
     err |-> "", loads |-> 0, rops |-> << >>, fresh |-> FALSE,
     second |-> FALSE, prev |-> ZeroObj, told |-> FALSE, after |-> 0,
     remote |-> "", c0 |-> EmptyMap, rdb0 |-> EmptyMap,
     version0 |-> EmptyMap, redo |-> FALSE, latest |-> -1]

NoTask ==
    [pc |-> "none", inst |-> "", ent |-> <<"", "">>, loader |-> "",
     obj |-> ZeroObj, recNo |-> 0, expired |-> FALSE, latest |-> FALSE,
     notify |-> {}, trail |-> << >>]

\* The worker before Start: no notification in hand, none applied or dropped.
\* last is the notification applied last and streak the number of times in
\* a row it has been applied; owed counts what was queued at a Stop.
NoWorker ==
    [pc |-> "off", info |-> NoInfo, last |-> NoInfo, dropped |-> FALSE,
     owed |-> 0, streak |-> 0]

\* No call of RegisterLoader yet.
NoCall == [ns |-> "", loader |-> "", err |-> "", before |-> EmptyMap]

\* New(cfg) on every instance: empty registry, empty tiers, open channels,
\* no worker; Redis holds nothing.
New ==
    /\ loaders = [i \in Instances |-> EmptyMap]
    /\ c = [i \in Instances |-> EmptyMap]
    /\ version = [i \in Instances |-> EmptyMap]
    /\ updates = [i \in Instances |-> << >>]
    /\ stop = [i \in Instances |-> 0]
    /\ closed = [i \in Instances |-> FALSE]
    /\ worker = [i \in Instances |-> NoWorker]
    /\ panicked = [i \in Instances |-> FALSE]
    /\ rdb = EmptyMap
    /\ ttl = {}
    /\ source = [e \in Entities |-> 1]
    /\ get = [i \in Instances |-> IdleGet]
    /\ refresh = [t \in RTasks |-> NoTask]
    /\ work \in Entities
    /\ used = 0
    /\ calm = [i \in Instances |-> FALSE]
    /\ loaded = [i \in Instances |-> {}]
    /\ registered = [i \in Instances |-> NoCall]

\* The state in which the cache serves: every instance constructed, a loader
\* registered for every namespace and the worker started (the set-up of
\* TestLevelCache_Get and TestLevelCache_Refresh).
Init ==
    /\ loaders = [i \in Instances |-> [ns \in Namespaces |-> "GetDish"]]
    /\ c = [i \in Instances |-> EmptyMap]
    /\ version = [i \in Instances |-> EmptyMap]
    /\ updates = [i \in Instances |-> << >>]
    /\ stop = [i \in Instances |-> 0]
    /\ closed = [i \in Instances |-> FALSE]
    /\ worker = [i \in Instances |-> [NoWorker EXCEPT !.pc = "select"]]
    /\ panicked = [i \in Instances |-> FALSE]
    /\ rdb = EmptyMap
    /\ ttl = {}
    /\ source = [e \in Entities |-> 1]
    /\ get = [i \in Instances |-> IdleGet]
    /\ refresh = [t \in RTasks |-> NoTask]
    /\ work \in Entities
    /\ used = 0
    /\ calm = [i \in Instances |-> FALSE]
    /\ loaded = [i \in Instances |-> {}]
    /\ registered = [i \in Instances |-> NoCall]

\* The state of an instance that has served: on New, RegisterLoader for the
\* namespace of the entity and Start on both instances, a Get on A and a Get
\* on B loaded datum 1, the source of truth changed to datum 2, and a
\* Refresh on A ran to its end.  B holds the older value and shadow 0.
Served ==
    LET k == DataKey(work)
    IN  /\ work \in Entities
        /\ loaders = [i \in Instances |-> Put(EmptyMap, work[1], "GetDish")]
        /\ c = [i \in Instances |->
                  Put(EmptyMap, k,
                      toJson(Obj(work[2], IF i = "A" THEN 2 ELSE 1)))]
        /\ version = [i \in Instances |->
                        Put(EmptyMap, k, IF i = "A" THEN 1 ELSE 0)]
        /\ updates = [i \in Instances |-> << >>]
        /\ stop = [i \in Instances |-> 0]
        /\ closed = [i \in Instances |-> FALSE]
        /\ worker = [i \in Instances |-> [NoWorker EXCEPT !.pc = "select"]]
        /\ panicked = [i \in Instances |-> FALSE]
        /\ rdb = Put(Put(EmptyMap, k, toJson(Obj(work[2], 2))),
                     RefreshVersionKey(work), FormatInt(1))
        /\ ttl = {k}
        /\ source = [e \in Entities |-> IF e = work THEN 2 ELSE 1]
        /\ get = [i \in Instances |-> IdleGet]
        /\ refresh = [t \in RTasks |-> NoTask]
        /\ used = 0
        /\ calm = [i \in Instances |-> FALSE]
        /\ loaded = [i \in Instances |-> IF i = "A" THEN {k} ELSE {}]
        /\ registered = [i \in Instances |->
                           [ns |-> work[1], loader |-> "GetDish", err |-> "",
                            before |-> EmptyMap]]

\* Every step but a step of the Get of instance i ends the calm of i.
Disturb(keep) == calm' = [j \in Instances |-> j \in keep /\ calm[j]]

\* A Redis command answers (TRUE) or fails with an error of the connection
\* (FALSE), which is an event of the environment.
Ups == IF used < MaxOps THEN BOOLEAN ELSE {TRUE}
Charge(up) == used' = IF up THEN used ELSE used + 1

\* ------------------------------------------------------------ Redis commands

\* GET: the string under k, or redis.Nil (with the empty string).
RedisHas(store, k) == k \in DOMAIN store
RedisGet(store, k) == IF k \in DOMAIN store THEN store[k] ELSE << >>

\* INCR: a missing key counts from 0; a non-integer value is an error.
IncrOk(store, k) == k \notin DOMAIN store \/ ParseOk(store[k])
IncrResult(store, k) == IF k \in DOMAIN store THEN ParseInt(store[k]) + 1 ELSE 1

\* redislock.Obtain is SET lockKey token NX PX ttl: it succeeds on a free key.
ObtainTaken(store, lk) == TRUE
ObtainFree(store, lk) == lk \notin DOMAIN store

\* The token of the lock obtained by Refresh task t.
Token(t) == <<"token">> \o FormatInt(t)

\* The loader: GetDish-like, it answers from the source of truth.
LoaderOk(e) == source[e] # 0
LoaderData(e) == Obj(e[2], source[e])
\* loader(ctx, key) returns data and a nil error.
CallOk(l, e) == l = "GetDish" /\ LoaderOk(e)

\* -------------------------------------------------------------- registration

\* p.loaders after RegisterLoader(ns, l): a bound namespace keeps its loader.
BindOver(reg, ns, l) == Put(reg, ns, l)
Bind(reg, ns, l) == IF ns \in DOMAIN reg THEN reg ELSE Put(reg, ns, l)

\* RegisterLoader: an error when the namespace is bound, else it binds it
\* and returns nil.
RegisterLoader(i, ns, l) ==
    /\ ~panicked[i]
    /\ loaders' = [loaders EXCEPT ![i] = Bind(@, ns, l)]
    /\ registered' = [registered EXCEPT ![i] =
                        [ns |-> ns, loader |-> l,
                         err |-> IF ns \in DOMAIN loaders[i]
                                 THEN "existed" ELSE "",
                         before |-> loaders[i]]]
    /\ used < MaxOps
    /\ used' = used + 1
    /\ Disturb({})
    /\ UNCHANGED <<c, version, updates, stop, closed, worker, panicked,
                   rdb, ttl, source, get, refresh, work, loaded>>

\* ------------------------------------------------------------------------ Get

\* The entity has never been seen by instance i: no entry in either tier and
\* no shadow version.
NeverSeen(i, e) ==
    /\ DataKey(e) \notin DOMAIN c[i]
    /\ DataKey(e) \notin DOMAIN rdb
    /\ DataKey(e) \notin DOMAIN version[i]

\* The Refresh task of instance i that was the last to complete for e with
\* its increment done (none or one).
Refreshed(i, e) ==
    {t \in RTasks : /\ refresh[t].pc = "done"
                    /\ refresh[t].latest
                    /\ refresh[t].inst = i
                    /\ refresh[t].ent = e}

\* The notification queue of i is empty and its worker is idle.
Drained(i) == updates[i] = << >> /\ worker[i].pc # "apply"

\* The caller of instance i calls Get(ctx, key, &obj) with a zero obj of the
\* namespace.  The call is the second of two consecutive Gets when the
\* previous call returned nil for the same entity and nothing ran since.
GetCall(i, e) ==
    /\ ~panicked[i]
    /\ get[i].pc \in {"idle", "done"}
    /\ used < MaxOps
    /\ used' = used + 1
    /\ LET again == /\ get[i].pc = "done"
                    /\ get[i].err = ""
                    /\ get[i].ent = e
                    /\ calm[i]
       IN  /\ get' = [get EXCEPT ![i] =
                        [pc |-> "check", ent |-> e, obj |-> ZeroObj,
                         info |-> NoInfo, err |-> "", loads |-> 0,
                         rops |-> << >>, fresh |-> NeverSeen(i, e),
                         second |-> again,
                         prev |-> IF again THEN get[i].obj ELSE ZeroObj,
                         told |-> FALSE,
                         after |-> IF Drained(i) /\ Refreshed(i, e) # {}
                                   THEN CHOOSE t \in Refreshed(i, e) : TRUE
                                   ELSE 0,
                         remote |-> "", c0 |-> c[i], rdb0 |-> rdb,
                         version0 |-> version[i], redo |-> FALSE,
                         latest |-> -1]]
           /\ calm' = [j \in Instances |-> IF j = i THEN TRUE ELSE FALSE]
    /\ UNCHANGED <<loaders, c, version, updates, stop, closed, worker,
                   panicked, rdb, ttl, source, refresh, work,
                   loaded, registered>>

\* current, ok := p.version[k]: a missing key reads as the zero value.
HasShadowAlways(ver, k) == TRUE
HasShadow(ver, k) == k \in DOMAIN ver
Current(ver, k) == IF k \in DOMAIN ver THEN ver[k] ELSE 0

\* checkCacheUpdate's test: the remote counter against the shadow version.
NeedUpdateInverted(latest, current) == latest = current
NeedUpdate(latest, current) == latest # current

\* checkCacheUpdate: read the version key; when the read fails (redis.Nil
\* included), the text is no integer or the instance has no shadow version,
\* return; when the two differ, go on to send a versionInfo.  The check is a
\* redo when the worker's last notification, for the same key, was dropped;
\* latest is the number read, -1 when none was.
GetCheck(i) ==
    /\ ~panicked[i]
    /\ get[i].pc = "check"
    /\ LET e == get[i].ent
           k == DataKey(e)
           vk == CheckVersionKey(e)
           content == RedisGet(rdb, vk)
       IN  \E up \in Ups :
             LET differs == /\ up
                            /\ RedisHas(rdb, vk)
                            /\ ParseOk(content)
                            /\ HasShadow(version[i], k)
                            /\ NeedUpdate(ParseInt(content),
                                          Current(version[i], k))
             IN  /\ Charge(up)
                 /\ get' = [get EXCEPT
                    ![i].pc = IF differs THEN "send" ELSE "local",
                    ![i].info = IF differs
                                THEN [dataKey |-> k,
                                      versionNo |-> ParseInt(content)]
                                ELSE NoInfo,
                    ![i].latest = IF up /\ RedisHas(rdb, vk)
                                       /\ ParseOk(content)
                                  THEN ParseInt(content) ELSE -1,
                    ![i].redo = /\ worker[i].dropped
                                /\ worker[i].pc = "select"
                                /\ worker[i].info.dataKey = k,
                    ![i].told = \E t \in RTasks :
                                   /\ refresh[t].ent = e
                                   /\ i \in refresh[t].notify,
                    ![i].rops = Append(@, IF up THEN "GET version"
                                                ELSE "GET version: error")]
           /\ refresh' = [t \in RTasks |->
                 IF refresh[t].ent = e
                 THEN [refresh[t] EXCEPT !.notify = @ \ {i}]
                 ELSE refresh[t]]
    /\ Disturb({i})
    /\ UNCHANGED <<loaders, c, version, updates, stop, closed, worker,
                   panicked, rdb, ttl, source, work,
                   loaded, registered>>

\* p.updates <- versionInfo{...}: blocks while the queue is full, panics
\* when the worker has closed the channel.
GetSend(i) ==
    /\ ~panicked[i]
    /\ get[i].pc = "send"
    /\ IF closed[i]
       THEN /\ panicked' = [panicked EXCEPT ![i] = TRUE]
            /\ UNCHANGED <<updates, get>>
       ELSE /\ Len(updates[i]) < MaxUpdateBuffer
            /\ updates' = [updates EXCEPT ![i] = Append(@, get[i].info)]
            /\ get' = [get EXCEPT ![i].pc = "local"]
            /\ UNCHANGED panicked
    /\ Disturb({i})
    /\ UNCHANGED <<loaders, c, version, stop, closed, worker, rdb, ttl,
                   source, refresh, used, work,
                   loaded, registered>>

\* p.c.Get(k)
LocalMiss(cache, k) == FALSE
LocalHit(cache, k) == k \in DOMAIN cache

\* get, the local tier: on a hit decode the content into obj and return.
GetLocal(i) ==
    /\ ~panicked[i]
    /\ get[i].pc = "local"
    /\ LET k == DataKey(get[i].ent)
       IN  get' = [get EXCEPT ![i] =
             IF LocalHit(c[i], k)
             THEN IF UnmarshalOk(c[i][k])
                  THEN [@ EXCEPT !.pc = "done", !.obj = Unmarshal(c[i][k])]
                  ELSE [@ EXCEPT !.pc = "done", !.err = "unmarshal"]
             ELSE [@ EXCEPT !.pc = "remote"]]
    /\ Disturb({i})
    /\ UNCHANGED <<loaders, c, version, updates, stop, closed, worker,
                   panicked, rdb, ttl, source, refresh, used, work,
                   loaded, registered>>

\* get, the remote tier: an error other than redis.Nil is returned; a value
\* found is decoded into obj and stored in the local tier; then, value found
\* or not, the loader of the namespace is looked up.
GetRemote(i) ==
    /\ ~panicked[i]
    /\ get[i].pc = "remote"
    /\ LET e == get[i].ent
           k == DataKey(e)
           content == RedisGet(rdb, k)
           found == content # << >>
           known == e[1] \in DOMAIN loaders[i]
       IN  \E up \in Ups :
             /\ Charge(up)
             /\ IF ~up
                THEN /\ get' = [get EXCEPT
                           ![i].pc = "done",
                           ![i].err = "redis",
                           ![i].rops = Append(@, "GET value: error")]
                     /\ UNCHANGED c
                ELSE IF found /\ ~UnmarshalOk(content)
                THEN /\ get' = [get EXCEPT
                           ![i].pc = "done",
                           ![i].err = "unmarshal",
                           ![i].rops = Append(@, "GET value")]
                     /\ UNCHANGED c
                ELSE /\ get' = [get EXCEPT
                           ![i].pc = IF known THEN "load" ELSE "done",
                           ![i].err = IF known THEN "" ELSE "loader not found",
                           ![i].obj = IF found THEN Unmarshal(content) ELSE @,
                           ![i].remote = IF found THEN "hit" ELSE "miss",
                           ![i].rops = Append(@, "GET value")]
                     /\ c' = IF found
                             THEN [c EXCEPT ![i] =
                                     Put(@, k, toJson(Unmarshal(content)))]
                             ELSE c
    /\ Disturb({i})
    /\ UNCHANGED <<loaders, version, updates, stop, closed, worker, panicked,
                   rdb, ttl, source, refresh, work,
                   loaded, registered>>

\* get, the loader: its error is returned, its data is copied into obj.
GetLoad(i) ==
    /\ ~panicked[i]
    /\ get[i].pc = "load"
    /\ LET e == get[i].ent
       IN  get' = [get EXCEPT ![i] =
             IF CallOk(loaders[i][e[1]], e)
             THEN [@ EXCEPT !.pc = "write", !.obj = LoaderData(e),
                            !.loads = @ + 1]
             ELSE [@ EXCEPT !.pc = "done", !.err = "loader",
                            !.loads = @ + 1]]
    /\ Disturb({i})
    /\ UNCHANGED <<loaders, c, version, updates, stop, closed, worker,
                   panicked, rdb, ttl, source, refresh, used, work,
                   loaded, registered>>

\* if _, ok := p.version[k]; !ok { p.version[k] = 0 }
SeedVersionAtOne(ver, k) == IF k \in DOMAIN ver THEN ver ELSE Put(ver, k, 1)
SeedVersion(ver, k) == IF k \in DOMAIN ver THEN ver ELSE Put(ver, k, 0)

\* get, the write-through: the encoded obj goes to the remote tier and to
\* the local tier, and the shadow version is seeded.
GetWrite(i) ==
    /\ ~panicked[i]
    /\ get[i].pc = "write"
    /\ LET k == DataKey(get[i].ent)
           content == toJson(get[i].obj)
       IN  /\ rdb' = Put(rdb, k, content)
           /\ ttl' = ttl \cup {k}
           /\ c' = [c EXCEPT ![i] = Put(@, k, content)]
           /\ version' = [version EXCEPT ![i] = SeedVersion(@, k)]
           /\ loaded' = [loaded EXCEPT ![i] =
                            IF get[i].remote = "miss" THEN @ \cup {k} ELSE @]
           /\ get' = [get EXCEPT ![i].pc = "done",
                                 ![i].rops = Append(@, "SET value")]
    /\ Disturb({i})
    /\ UNCHANGED <<loaders, updates, stop, closed, worker, panicked, source,
                   refresh, used, work,
                   registered>>

\* --------------------------------------------------------------------- worker

\* Start: spawn the goroutine that serves p.updates and p.stop.
Start(i) ==
    /\ ~panicked[i]
    /\ worker[i].pc = "off"
    /\ worker' = [worker EXCEPT ![i].pc = "select"]
    /\ used < MaxOps
    /\ used' = used + 1
    /\ Disturb({})
    /\ UNCHANGED <<loaders, c, version, updates, stop, closed, panicked,
                   rdb, ttl, source, get, refresh, work,
                   loaded, registered>>

\* Stop: p.stop <- struct{}{} on a channel of capacity 1: blocks while a
\* signal is buffered, panics when the worker has closed the channel.  The
\* worker owes the notifications that are queued when Stop is called.
Stop(i) ==
    /\ ~panicked[i]
    /\ IF closed[i]
       THEN /\ panicked' = [panicked EXCEPT ![i] = TRUE]
            /\ UNCHANGED stop
       ELSE /\ stop[i] = 0
            /\ stop' = [stop EXCEPT ![i] = 1]
            /\ UNCHANGED panicked
    /\ worker' = [worker EXCEPT ![i].owed = Len(updates[i])]
    /\ used < MaxOps
    /\ used' = used + 1
    /\ Disturb({})
    /\ UNCHANGED <<loaders, c, version, updates, closed, rdb, ttl,
                   source, get, refresh, work,
                   loaded, registered>>

\* select, case update := <-p.updates
WorkerRecv(i) ==
    /\ ~panicked[i]
    /\ worker[i].pc = "select"
    /\ updates[i] # << >>
    /\ worker' = [worker EXCEPT ![i].pc = "apply",
                                 ![i].info = Head(updates[i]),
                                 ![i].owed = IF @ > 0 THEN @ - 1 ELSE 0]
    /\ updates' = [updates EXCEPT ![i] = Tail(@)]
    /\ Disturb({})
    /\ UNCHANGED <<loaders, c, version, stop, closed, panicked, rdb, ttl,
                   source, get, refresh, used, work,
                   loaded, registered>>

\* select, case <-p.stop: close both channels and return.  When both cases
\* are ready, select takes either.
WorkerStop(i) ==
    /\ ~panicked[i]
    /\ worker[i].pc = "select"
    /\ stop[i] = 1
    /\ stop' = [stop EXCEPT ![i] = 0]
    /\ closed' = [closed EXCEPT ![i] = TRUE]
    /\ worker' = [worker EXCEPT ![i].pc = "exit"]
    /\ Disturb({})
    /\ UNCHANGED <<loaders, c, version, updates, panicked, rdb, ttl, source,
                   get, refresh, used, work,
                   loaded, registered>>

\* parseAndDo: read the value of the entity; on an error (redis.Nil included)
\* return it; else set the shadow version to the notification's number and
\* the local entry to the content read.
parseAndDoEager(loc, ver, store, info, up) ==
    [c |-> IF up /\ RedisHas(store, info.dataKey)
           THEN Put(loc, info.dataKey, store[info.dataKey]) ELSE loc,
     version |-> Put(ver, info.dataKey, info.versionNo),
     err |-> IF up /\ RedisHas(store, info.dataKey) THEN "" ELSE "redis"]
parseAndDoBump(loc, ver, store, info, up) ==
    IF up /\ RedisHas(store, info.dataKey)
    THEN [c |-> Put(loc, info.dataKey, store[info.dataKey]),
          version |-> Put(ver, info.dataKey,
                          Current(ver, info.dataKey) + info.versionNo),
          err |-> ""]
    ELSE [c |-> loc, version |-> ver, err |-> "redis"]
parseAndDo(loc, ver, store, info, up) ==
    IF up /\ RedisHas(store, info.dataKey)
    THEN [c |-> Put(loc, info.dataKey, store[info.dataKey]),
          version |-> Put(ver, info.dataKey, info.versionNo),
          err |-> ""]
    ELSE [c |-> loc, version |-> ver, err |-> "redis"]

\* _ = p.parseAndDo(ctx, update): the error is ignored, so a notification
\* whose read fails is dropped; the worker selects again.
WorkerApply(i) ==
    /\ ~panicked[i]
    /\ worker[i].pc = "apply"
    /\ \E up \in Ups :
         LET r == parseAndDo(c[i], version[i], rdb, worker[i].info, up)
         IN  /\ Charge(up)
             /\ c' = [c EXCEPT ![i] = r.c]
             /\ version' = [version EXCEPT ![i] = r.version]
             /\ worker' = [worker EXCEPT
                   ![i].pc = "select",
                   ![i].last = IF r.err = "" THEN worker[i].info ELSE NoInfo,
                   ![i].dropped = r.err # "",
                   ![i].streak = IF r.err # "" THEN 0
                                 ELSE IF worker[i].last = worker[i].info
                                 THEN @ + 1 ELSE 1]
    /\ Disturb({})
    /\ UNCHANGED <<loaders, updates, stop, closed, panicked, rdb, ttl, source,
                   get, refresh, work, loaded, registered>>

\* -------------------------------------------------------------------- Refresh

\* The statements of the goroutine of Refresh, in the order of the code:
\* Obtain, the loader, the writes, Incr with the shadow update, Release.
RefreshOrderEarlyRelease ==
    <<"obtain", "load", "write", "release", "incr", "done">>
RefreshOrder == <<"obtain", "load", "write", "incr", "release", "done">>

\* The statement after the one at pc.
After(pc) ==
    RefreshOrder[(CHOOSE n \in 1..Len(RefreshOrder) : RefreshOrder[n] = pc) + 1]

InSection(t) == refresh[t].pc \in {"load", "write", "incr", "release"}
\* The tasks that have obtained the lock and not released it.
Holding(t) == InSection(t) \/ refresh[t].pc = "abort"

\* Refresh: return when the namespace has no loader, else spawn the task.
RefreshCall(i, e) ==
    /\ ~panicked[i]
    /\ e[1] \in DOMAIN loaders[i]
    /\ used < MaxOps
    /\ used' = used + 1
    /\ \E t \in RTasks :
         /\ refresh[t].pc = "none"
         /\ \A u \in RTasks : u < t => refresh[u].pc # "none"
         /\ refresh' = [refresh EXCEPT ![t] =
                          [NoTask EXCEPT !.pc = "obtain", !.inst = i,
                                         !.ent = e,
                                         !.loader = loaders[i][e[1]]]]
    /\ Disturb({})
    /\ UNCHANGED <<loaders, c, version, updates, stop, closed, worker,
                   panicked, rdb, ttl, source, get, work,
                   loaded, registered>>

\* p.locker.Obtain(ctx, lockKey, p.cfg.LockInterval, nil); a failed attempt
\* sleeps and tries again, which changes nothing.
RefreshObtain(t) ==
    /\ refresh[t].pc = "obtain"
    /\ ~panicked[refresh[t].inst]
    /\ LET lk == LockKey(refresh[t].ent)
       IN  /\ ObtainFree(rdb, lk)
           /\ rdb' = Put(rdb, lk, Token(t))
           /\ ttl' = ttl \cup {lk}
    /\ refresh' = [refresh EXCEPT ![t].pc = After("obtain"),
                                   ![t].trail = Append(@, "Obtain")]
    /\ Disturb({})
    /\ UNCHANGED <<loaders, c, version, updates, stop, closed, worker,
                   panicked, source, get, used, work,
                   loaded, registered>>

\* if err != nil { return }: the task is over, its lock is not released.
LoadFailedReleases(task) ==
    [task EXCEPT !.pc = "release", !.trail = Append(@, "loader: error")]
LoadFailed(task) ==
    [task EXCEPT !.pc = "abort", !.trail = Append(@, "loader: error")]

\* loader(ctx, key): on an error the task returns, the lock is not released.
RefreshLoad(t) ==
    /\ refresh[t].pc = "load"
    /\ ~panicked[refresh[t].inst]
    /\ LET e == refresh[t].ent
       IN  refresh' = [refresh EXCEPT ![t] =
             IF CallOk(refresh[t].loader, e)
             THEN [@ EXCEPT !.pc = After("load"), !.obj = LoaderData(e),
                            !.trail = Append(@, "loader")]
             ELSE LoadFailed(@)]
    /\ Disturb({})
    /\ UNCHANGED <<loaders, c, version, updates, stop, closed, worker,
                   panicked, rdb, ttl, source, get, used, work,
                   loaded, registered>>

\* p.c.SetDefault(k, toJson(data)); p.rdb.Set(ctx, k, toJson(data), ...)
RefreshWrite(t) ==
    /\ refresh[t].pc = "write"
    /\ ~panicked[refresh[t].inst]
    /\ LET i == refresh[t].inst
           k == DataKey(refresh[t].ent)
           content == toJson(refresh[t].obj)
       IN  /\ c' = [c EXCEPT ![i] = Put(@, k, content)]
           /\ rdb' = Put(rdb, k, content)
           /\ ttl' = ttl \cup {k}
    /\ refresh' = [refresh EXCEPT
                      ![t].pc = After("write"),
                      ![t].trail = @ \o <<"Set local", "Set remote">>]
    /\ Disturb({})
    /\ UNCHANGED <<loaders, version, updates, stop, closed, worker, panicked,
                   source, get, used, work,
                   loaded, registered>>

\* if recNo, err := p.rdb.Incr(ctx, vk).Result(); err == nil
\*     { p.version[k] = recNo }
RefreshIncr(t) ==
    /\ refresh[t].pc = "incr"
    /\ ~panicked[refresh[t].inst]
    /\ LET i == refresh[t].inst
           k == DataKey(refresh[t].ent)
           vk == RefreshVersionKey(refresh[t].ent)
           recNo == IncrResult(rdb, vk)
       IN  \E up \in Ups :
             /\ Charge(up)
             /\ IF up /\ IncrOk(rdb, vk)
                THEN /\ rdb' = Put(rdb, vk, FormatInt(recNo))
                     /\ version' = [version EXCEPT ![i] = Put(@, k, recNo)]
                     /\ refresh' = [u \in RTasks |->
                           IF u = t
                           THEN [refresh[t] EXCEPT
                                   !.pc = After("incr"),
                                   !.recNo = recNo,
                                   !.trail = @ \o <<"Incr", "shadow">>,
                                   !.notify = {j \in Instances \ {i} :
                                                 k \in DOMAIN version[j]}]
                           ELSE IF refresh[u].ent = refresh[t].ent
                           THEN [refresh[u] EXCEPT !.notify = @ \ {i}]
                           ELSE refresh[u]]
                     /\ loaded' = [loaded EXCEPT ![i] = @ \cup {k}]
                ELSE /\ refresh' = [refresh EXCEPT
                                      ![t].pc = After("incr"),
                                      ![t].trail = Append(@, "Incr: error")]
                     /\ UNCHANGED <<rdb, version, loaded>>
    /\ Disturb({})
    /\ UNCHANGED <<loaders, c, updates, stop, closed, worker, panicked, ttl,
                   source, get, work,
                   registered>>

\* lock.Release(ctx): the key is deleted when it still holds the task's
\* token; the result is ignored.  The task is then over.
RefreshRelease(t) ==
    /\ refresh[t].pc = "release"
    /\ ~panicked[refresh[t].inst]
    /\ LET i == refresh[t].inst
           e == refresh[t].ent
           k == DataKey(e)
           lk == LockKey(e)
           mine == RedisHas(rdb, lk) /\ rdb[lk] = Token(t)
           ok == refresh[t].recNo > 0
       IN  /\ \E up \in Ups :
                 /\ Charge(up)
                 /\ IF up /\ mine
                    THEN rdb' = Del(rdb, lk) /\ ttl' = ttl \ {lk}
                    ELSE UNCHANGED <<rdb, ttl>>
           /\ refresh' = [u \in RTasks |->
                 IF u = t
                 THEN [refresh[t] EXCEPT !.pc = After("release"),
                                         !.latest = ok,
                                         !.trail = Append(@, "Release")]
                 ELSE IF ok /\ refresh[u].inst = i /\ refresh[u].ent = e
                 THEN [refresh[u] EXCEPT !.latest = FALSE]
                 ELSE refresh[u]]
    /\ Disturb({})
    /\ UNCHANGED <<loaders, c, version, updates, stop, closed, worker,
                   panicked, source, get, work,
                   loaded, registered>>

\* ---------------------------------------------------------------- environment

\* The source of truth changes: a new datum, or none (0).
SourceChange(e, d) ==
    /\ d # source[e]
    /\ source' = [source EXCEPT ![e] = d]
    /\ used < MaxOps
    /\ used' = used + 1
    /\ Disturb({})
    /\ UNCHANGED <<loaders, c, version, updates, stop, closed, worker,
                   panicked, rdb, ttl, get, refresh, work,
                   loaded, registered>>

\* An entry of the local tier reaches cfg.CacheExpiration.
LocalExpire(i, k) ==
    /\ ~panicked[i]
    /\ k \in DOMAIN c[i]
    /\ c' = [c EXCEPT ![i] = Del(@, k)]
    /\ used < MaxOps
    /\ used' = used + 1
    /\ Disturb({})
    /\ UNCHANGED <<loaders, version, updates, stop, closed, worker, panicked,
                   rdb, ttl, source, get, refresh, work,
                   loaded, registered>>

\* A Redis key reaches its expiration: a value (cfg.CacheExpiration) or a
\* lock (cfg.LockInterval), whose holder then works on without the lock.
RemoteExpire(k) ==
    /\ k \in ttl
    /\ rdb' = Del(rdb, k)
    /\ ttl' = ttl \ {k}
    /\ refresh' = [t \in RTasks |->
                     IF /\ Holding(t)
                        /\ k = LockKey(refresh[t].ent)
                        /\ rdb[k] = Token(t)
                     THEN [refresh[t] EXCEPT !.expired = TRUE]
                     ELSE refresh[t]]
    /\ used < MaxOps
    /\ used' = used + 1
    /\ Disturb({})
    /\ UNCHANGED <<loaders, c, version, updates, stop, closed, worker,
                   panicked, source, get, work,
                   loaded, registered>>

\* ---------------------------------------------------------------------- system

\* The cache serving: Get, the worker, Refresh and the environment.  The
\* entities do not share a key, so a behaviour follows one of them.
Next ==
    \/ \E i \in Instances : GetCall(i, work)
    \/ \E i \in Instances : GetCheck(i)
    \/ \E i \in Instances : GetSend(i)
    \/ \E i \in Instances : GetLocal(i)
    \/ \E i \in Instances : GetRemote(i)
    \/ \E i \in Instances : GetLoad(i)
    \/ \E i \in Instances : GetWrite(i)
    \/ \E i \in Instances : WorkerRecv(i)
    \/ \E i \in Instances : WorkerApply(i)
    \/ \E i \in Instances : RefreshCall(i, work)
    \/ \E t \in RTasks : RefreshObtain(t)
    \/ \E t \in RTasks : RefreshLoad(t)
    \/ \E t \in RTasks : RefreshWrite(t)
    \/ \E t \in RTasks : RefreshIncr(t)
    \/ \E t \in RTasks : RefreshRelease(t)
    \/ \E d \in 0..MaxData : SourceChange(work, d)
    \/ \E i \in Instances : LocalExpire(i, DataKey(work))
    \/ RemoteExpire(DataKey(work))
    \/ RemoteExpire(LockKey(work))

Spec == Init /\ [][Next]_vars

\* The life of an instance, newly constructed or having served: registration,
\* Start and Stop too.
NextLife ==
    \/ Next
    \/ \E i \in Instances, ns \in Namespaces, l \in LoaderNames :
         RegisterLoader(i, ns, l)
    \/ \E i \in Instances : Start(i)
    \/ \E i \in Instances : Stop(i)
    \/ \E i \in Instances : WorkerStop(i)

InitLife == New \/ Served

SpecLife == InitLife /\ [][NextLife]_vars

\* ---------------------------------------------------------------- properties

\* The remote authoritative version counter of an entity: the integer under
\* the version key join(namespace, key, "version") that Get reads, 0 while
\* the key is not set.
Counter(e) ==
    IF RedisHas(rdb, CheckVersionKey(e)) /\ ParseOk(rdb[CheckVersionKey(e)])
    THEN ParseInt(rdb[CheckVersionKey(e)])
    ELSE 0

\* No Redis command of the Get failed with an error of the connection.
NoRedisError(g) ==
    \A p \in 1..Len(g.rops) :
      g.rops[p] \in {"GET version", "GET value", "SET value"}

Wrote(g) == \E p \in 1..Len(g.rops) : g.rops[p] = "SET value"

\* A PendingInvalidation for key k is queued on i or being applied by its
\* worker.
InFlight(i, k) ==
    \/ \E p \in 1..Len(updates[i]) : updates[i][p].dataKey = k
    \/ worker[i].pc = "apply" /\ worker[i].info.dataKey = k

\* C1: a Get of a never-seen entity whose loader succeeds, run alone with
\* Redis answering, has invoked the loader exactly once when it returns, both
\* tiers hold the encoded output of the loader and the shadow version is 0.
C1_FirstGet ==
    \A i \in Instances :
      LET g == get[i]
          k == DataKey(g.ent)
      IN  ( /\ g.pc = "done"
            /\ calm[i]
            /\ g.fresh
            /\ g.ent[1] \in DOMAIN loaders[i]
            /\ LoaderOk(g.ent)
            /\ NoRedisError(g) )
          => ( /\ g.err = ""
               /\ g.loads = 1
               /\ g.obj = LoaderData(g.ent)
               /\ k \in DOMAIN c[i]
               /\ k \in DOMAIN rdb
               /\ c[i][k] = rdb[k]
               /\ rdb[k] = toJson(LoaderData(g.ent))
               /\ k \in DOMAIN version[i]
               /\ version[i][k] = 0 )

C1_Witness ==
    \E i \in Instances :
      /\ get[i].pc = "done"
      /\ calm[i]
      /\ get[i].fresh
      /\ LoaderOk(get[i].ent)
      /\ NoRedisError(get[i])
      /\ get[i].loads = 1
      /\ Wrote(get[i])

\* C2 (as claimed): the first Get check of an entity on instance B after
\* another instance completed a Refresh of it, B holding a shadow version,
\* reads a counter that differs from the shadow and sends a notification.
C2_NextGetEnqueues ==
    \A i \in Instances :
      ( /\ get[i].pc \notin {"idle", "check"}
        /\ get[i].told
        /\ get[i].rops[1] = "GET version" )
      => get[i].info.dataKey = DataKey(get[i].ent)

\* C3 (as claimed): a Get that finds the value in the remote tier neither
\* invokes the loader nor writes the remote tier; the loader is invoked only
\* when both tiers miss.
C3_RemoteHitSkipsLoader ==
    \A i \in Instances :
      /\ get[i].remote = "hit" => (get[i].loads = 0 /\ ~Wrote(get[i]))
      /\ get[i].loads > 0 => get[i].remote = "miss"

\* No Refresh task but t has got a value from the loader, so the output of
\* t is the latest a Refresh produced.
OnlyLoaded(t) == \A u \in RTasks \ {t} : refresh[u].obj = ZeroObj

\* C4 (as claimed): a Get called after a Refresh of the entity completed on
\* the instance, the queue empty and the worker idle, returns the value the
\* loader produced for that Refresh, and the shadow version equals the
\* remote counter.
C4_GetAfterRefresh ==
    \A i \in Instances :
      LET g == get[i]
          k == DataKey(g.ent)
      IN  (g.pc = "done" /\ g.err = "" /\ g.after # 0)
          => ( /\ OnlyLoaded(g.after) => g.obj = refresh[g.after].obj
               /\ k \in DOMAIN version[i]
               /\ version[i][k] = Counter(g.ent) )

\* The tasks inside the lock-guarded section for entity e.
Inside(e) ==
    {t \in RTasks : InSection(t) /\ refresh[t].ent = e
                    /\ ~panicked[refresh[t].inst]}

\* C5 (as claimed): at most one Refresh task is inside the lock-guarded
\* section for an entity.
C5_OneInSection ==
    \A e \in Entities : Cardinality(Inside(e)) <= 1

\* C5 (amended): at most one Refresh task whose lease has not expired is
\* inside the section for an entity, and it is the one whose token the lock
\* key holds.
C5_OneUnexpiredInSection ==
    \A e \in Entities :
      /\ Cardinality({t \in Inside(e) : ~refresh[t].expired}) <= 1
      /\ \A t \in Inside(e) :
           ~refresh[t].expired =>
             (RedisHas(rdb, LockKey(e)) /\ rdb[LockKey(e)] = Token(t))

C5_Witness ==
    \E e \in Entities : \E t, u \in Inside(e) :
      t # u /\ refresh[t].expired /\ ~refresh[u].expired

\* C6 (as claimed): a shadow version is at most the remote counter.
C6_ShadowAtMostCounter ==
    \A i \in Instances, e \in Entities :
      DataKey(e) \in DOMAIN version[i] => version[i][DataKey(e)] <= Counter(e)

\* C7 (as claimed): while a shadow version differs from the remote counter,
\* a PendingInvalidation for the entity is in flight on the instance.
C7_DivergenceInFlight ==
    \A i \in Instances, e \in Entities :
      (DataKey(e) \in DOMAIN version[i] /\ version[i][DataKey(e)] # Counter(e))
      => InFlight(i, DataKey(e))

\* C7 (amended): a Get whose version check reads a remote counter that
\* differs from the shadow version of the instance goes on to send a
\* PendingInvalidation carrying the counter read.
C7_CheckSends ==
    [][\A i \in Instances :
         LET e == get[i].ent
             k == DataKey(e)
             vk == CheckVersionKey(e)
         IN  ( /\ get[i].pc = "check"
               /\ get'[i].pc # "check"
               /\ get'[i].rops[Len(get'[i].rops)] = "GET version"
               /\ RedisHas(rdb, vk)
               /\ ParseOk(rdb[vk])
               /\ k \in DOMAIN version[i]
               /\ ParseInt(rdb[vk]) # version[i][k] )
             => ( /\ get'[i].pc = "send"
                  /\ get'[i].info = [dataKey |-> k,
                                     versionNo |-> ParseInt(rdb[vk])] )]_vars

C7_Witness ==
    \E i \in Instances :
      /\ get[i].pc = "send"
      /\ DataKey(get[i].ent) \in DOMAIN version[i]
      /\ get[i].info.versionNo # version[i][DataKey(get[i].ent)]

\* C8 (as claimed): the remote counter has advanced by one for every Refresh
\* task that completed with its increment done, and by no more than the
\* increments made.
C8_CounterCountsRefreshes ==
    \A e \in Entities :
      LET completed == {t \in RTasks : /\ refresh[t].pc = "done"
                                       /\ refresh[t].recNo > 0
                                       /\ refresh[t].ent = e}
          incremented == {t \in RTasks : refresh[t].recNo > 0
                                         /\ refresh[t].ent = e}
      IN  /\ Cardinality(completed) <= Counter(e)
          /\ Counter(e) <= Cardinality(incremented)

\* C9: the second of two consecutive Gets of an entity, nothing else having
\* run, is served from the local tier: no loader call, no read of the remote
\* value, and the content of the first Get.
C9_SecondGetLocal ==
    \A i \in Instances :
      LET g == get[i]
      IN  (g.pc = "done" /\ g.second /\ calm[i])
          => ( /\ g.err = ""
               /\ g.loads = 0
               /\ g.remote = ""
               /\ g.obj = g.prev )

C9_Witness ==
    \E i \in Instances :
      /\ get[i].pc = "done"
      /\ get[i].second
      /\ calm[i]
      /\ get[i].obj = get[i].prev
      /\ get[i].obj # ZeroObj

\* C10 (as claimed): the second of two consecutive Gets performs no
\* remote-tier operation.
C10_NoRemoteOperation ==
    \A i \in Instances :
      (get[i].pc = "done" /\ get[i].second /\ calm[i]) => get[i].rops = << >>

\* C10 (amended): the second of two consecutive Gets performs exactly one
\* remote-tier operation, the read of the version counter of its check: no
\* read of the value and no write.
C10_OnlyVersionRead ==
    \A i \in Instances :
      (get[i].pc = "done" /\ get[i].second /\ calm[i])
      => ( /\ Len(get[i].rops) = 1
           /\ get[i].rops[1] \in {"GET version", "GET version: error"} )

C10_Witness ==
    \E i \in Instances :
      /\ get[i].pc = "done"
      /\ get[i].second
      /\ calm[i]
      /\ get[i].rops = <<"GET version">>

\* C11 (as claimed): a Get whose loader returned an error returns that error
\* and, nothing else having run since its call, the local tier, the remote
\* tier and the shadow versions of the instance are as they were at the call,
\* whatever the two tiers held.
C11_LoaderErrorNoMutation ==
    \A i \in Instances :
      LET g == get[i]
      IN  (g.pc = "done" /\ g.loads > 0 /\ ~CallOk(loaders[i][g.ent[1]], g.ent)
           /\ calm[i])
          => ( /\ g.err = "loader"
               /\ c[i] = g.c0
               /\ rdb = g.rdb0
               /\ version[i] = g.version0 )

\* C12 (as claimed): an instance holds a shadow version for an entity only
\* if a full-miss load of Get or a Refresh of the entity has succeeded on the
\* instance before.
C12_ShadowOnlyAfterLoad ==
    \A i \in Instances, e \in Entities :
      DataKey(e) \in DOMAIN version[i] => DataKey(e) \in loaded[i]

\* C13 (as claimed): the worker that terminates on a Stop has received, and
\* so applied, every PendingInvalidation that was queued when Stop was
\* called.
C13_StopDrains ==
    \A i \in Instances : worker[i].pc = "exit" => worker[i].owed = 0

\* C14: a call of RegisterLoader for a namespace that is bound returns an
\* error and leaves the registry as it was, the bound loader included; a call
\* for an unbound namespace returns nil and binds the namespace to the loader
\* given, changing no other binding.
C14_RegisterLoader ==
    \A i \in Instances :
      LET r == registered[i]
      IN  r.ns # "" =>
            IF r.ns \in DOMAIN r.before
            THEN r.err # "" /\ loaders[i] = r.before
            ELSE /\ r.err = ""
                 /\ DOMAIN loaders[i] = DOMAIN r.before \cup {r.ns}
                 /\ loaders[i][r.ns] = r.loader
                 /\ \A ns \in DOMAIN r.before : loaders[i][ns] = r.before[ns]

C14_Witness ==
    \E i, j \in Instances :
      /\ registered[i].err # ""
      /\ registered[i].loader # loaders[i][registered[i].ns]
      /\ registered[j].err = ""
      /\ registered[j].before # EmptyMap
      /\ registered[j].ns \notin DOMAIN registered[j].before

\* The lock key of the entity of task t holds the token of t.
HoldsLock(t) ==
    /\ RedisHas(rdb, LockKey(refresh[t].ent))
    /\ rdb[LockKey(refresh[t].ent)] = Token(t)

\* C15: when the loader of a Refresh task that has obtained the lock returns
\* an error, the step changes neither tier, the version key nor the shadow
\* versions and ends the task; the task never releases: the lock key keeps
\* its token until its lease expires, and until then no other task for the
\* entity gets past Obtain.
C15_LoaderErrorAborts ==
    /\ [](\A t \in RTasks :
            refresh[t].pc = "abort" =>
              /\ refresh[t].obj = ZeroObj
              /\ refresh[t].recNo = 0
              /\ refresh[t].trail = <<"Obtain", "loader: error">>
              /\ ~refresh[t].expired =>
                    /\ HoldsLock(t)
                    /\ \A u \in RTasks \ {t} :
                         (refresh[u].ent = refresh[t].ent /\ Holding(u))
                         => refresh[u].expired)
    /\ [][\A t \in RTasks :
            /\ ( /\ refresh[t].pc = "load"
                 /\ refresh'[t].pc # "load"
                 /\ ~CallOk(refresh[t].loader, refresh[t].ent) )
               => ( /\ refresh'[t].pc = "abort"
                    /\ UNCHANGED <<c, rdb, ttl, version>> )
            /\ refresh[t].pc = "abort" =>
                 /\ refresh'[t].pc = "abort"
                 /\ (~refresh[t].expired /\ ~refresh'[t].expired)
                    => (rdb' = rdb \/ HoldsLock(t)')]_vars

C15_Witness ==
    \E t, u \in RTasks :
      /\ refresh[t].pc = "abort"
      /\ ~refresh[t].expired
      /\ refresh[u].pc = "obtain"
      /\ refresh[u].ent = refresh[t].ent

\* What a Refresh task does, in order, when every step succeeds.
RefreshSteps ==
    <<"Obtain", "loader", "Set local", "Set remote", "Incr", "shadow",
      "Release">>

IsPrefix(a, b) == Len(a) <= Len(b) /\ a = SubSeq(b, 1, Len(a))

\* C16: a Refresh task whose steps succeed performs them in this order
\* between obtaining and releasing the lock: the loader, the write of the
\* encoded output to both tiers, the increment of the version key, the
\* shadow version set to the number the increment returned, the release; no
\* task releases the lock before its increment, and when the increment
\* succeeded, not before its shadow update.
C16_RefreshOrder ==
    /\ [](\A t \in RTasks :
            LET tr == refresh[t].trail
            IN  /\ refresh[t].recNo > 0 =>
                     (IsPrefix(tr, RefreshSteps) /\ Len(tr) >= 6)
                /\ (refresh[t].pc = "done" /\ refresh[t].recNo > 0)
                   => tr = RefreshSteps
                /\ \A p \in 1..Len(tr) :
                     tr[p] = "Release" =>
                       /\ p = Len(tr)
                       /\ \/ IsPrefix(SubSeq(tr, 1, p - 1), RefreshSteps)
                             /\ p = Len(RefreshSteps)
                          \/ tr[p - 1] = "Incr: error")
    /\ [][\A t \in RTasks :
            LET i == refresh[t].inst
                k == DataKey(refresh[t].ent)
                vk == RefreshVersionKey(refresh[t].ent)
            IN  /\ (refresh[t].pc = "load" /\ refresh'[t].pc = "write")
                   => refresh'[t].obj = LoaderData(refresh[t].ent)
                /\ (refresh[t].pc = "write" /\ refresh'[t].pc # "write")
                   => ( /\ c'[i][k] = toJson(refresh[t].obj)
                        /\ rdb'[k] = toJson(refresh[t].obj) )
                /\ (refresh[t].recNo = 0 /\ refresh'[t].recNo > 0)
                   => ( /\ refresh'[t].recNo = IncrResult(rdb, vk)
                        /\ rdb'[vk] = FormatInt(refresh'[t].recNo)
                        /\ version'[i][k] = refresh'[t].recNo )]_vars

C16_Witness ==
    \E t \in RTasks :
      /\ refresh[t].pc = "done"
      /\ refresh[t].recNo > 0
      /\ refresh[t].trail = RefreshSteps

\* C17: when the remote read of the worker for a notification fails (an
\* error of Redis, or no value under the key), the worker drops the
\* notification: it changes neither the local tier nor the shadow versions,
\* does not queue the notification again and selects again; a later check of
\* a Get on the instance that reads a counter differing from the shadow
\* sends a new PendingInvalidation with the counter read.
C17_DropNoRetry ==
    [][\A i \in Instances :
         LET e == get[i].ent
             k == DataKey(e)
             vk == CheckVersionKey(e)
         IN  /\ ( /\ worker[i].pc = "apply"
                  /\ worker'[i].pc # "apply"
                  /\ (~RedisHas(rdb, worker[i].info.dataKey) \/ used' # used) )
                => ( /\ c'[i] = c[i]
                     /\ version'[i] = version[i]
                     /\ updates'[i] = updates[i]
                     /\ worker'[i].pc = "select"
                     /\ worker'[i].dropped )
             /\ ( /\ worker[i].dropped
                  /\ worker[i].info.dataKey = k
                  /\ get[i].pc = "check"
                  /\ get'[i].pc # "check"
                  /\ used' = used
                  /\ RedisHas(rdb, vk)
                  /\ ParseOk(rdb[vk])
                  /\ k \in DOMAIN version[i]
                  /\ ParseInt(rdb[vk]) # version[i][k] )
                => ( /\ get'[i].pc = "send"
                     /\ get'[i].info = [dataKey |-> k,
                                        versionNo |-> ParseInt(rdb[vk])] )]_vars

C17_Witness ==
    \E i \in Instances :
      /\ worker[i].dropped
      /\ worker[i].pc = "select"
      /\ get[i].pc = "send"
      /\ get[i].redo
      /\ get[i].info = worker[i].info
      /\ version[i][get[i].info.dataKey] # get[i].info.versionNo

\* C18: the check of a Get goes on to enqueue exactly when its read of the
\* version key succeeds with an integer, the instance holds a shadow version
\* of the entity and the two differ; in every other case (no shadow, read
\* failed, key absent) it enqueues nothing and the Get goes on to the read
\* path; and nothing is put on the queue but the versionInfo of such a Get.
C18_EnqueueOnlyOnMismatch ==
    [][\A i \in Instances :
         LET e == get[i].ent
             k == DataKey(e)
             vk == CheckVersionKey(e)
             mismatch == /\ used' = used
                         /\ RedisHas(rdb, vk)
                         /\ ParseOk(rdb[vk])
                         /\ k \in DOMAIN version[i]
                         /\ ParseInt(rdb[vk]) # version[i][k]
         IN  /\ (get[i].pc = "check" /\ get'[i].pc # "check")
                => ( /\ updates' = updates
                     /\ get'[i].pc = IF mismatch THEN "send" ELSE "local" )
             /\ Len(updates'[i]) > Len(updates[i])
                => ( /\ get[i].pc = "send"
                     /\ get'[i].pc = "local"
                     /\ updates'[i] = Append(updates[i], get[i].info)
                     /\ get[i].info.dataKey = k )]_vars

C18_Witness ==
    \E i \in Instances :
      /\ get[i].pc = "local"
      /\ get[i].rops = <<"GET version">>
      /\ get[i].latest > 0
      /\ DataKey(get[i].ent) \notin DOMAIN version[i]
      /\ updates[i] = << >>

\* C19: applying a PendingInvalidation again, the remote tier being as it
\* was, leaves the local tier and the shadow versions as the application
\* before left them: for parseAndDo computed twice and three times on the
\* state in which the worker holds a notification, and for the step of the
\* worker that applies the notification it applied last.
C19_ApplyIdempotent ==
    /\ [](\A i \in Instances :
            worker[i].pc = "apply" =>
              \A up1, up2 \in BOOLEAN :
                LET info == worker[i].info
                    once == parseAndDo(c[i], version[i], rdb, info, up1)
                    twice == parseAndDo(once.c, once.version, rdb, info, up2)
                    thrice == parseAndDo(twice.c, twice.version, rdb, info,
                                         TRUE)
                IN  (once.err = "" \/ twice.err # "")
                    => ( /\ twice.c = once.c
                         /\ twice.version = once.version
                         /\ (once.err = "" =>
                               /\ thrice.c = once.c
                               /\ thrice.version = once.version) ))
    /\ [][\A i \in Instances :
            LET info == worker[i].info
                k == info.dataKey
            IN  ( /\ worker[i].pc = "apply"
                  /\ worker'[i].pc # "apply"
                  /\ worker[i].last = info
                  /\ k \in DOMAIN c[i]
                  /\ k \in DOMAIN version[i]
                  /\ version[i][k] = info.versionNo
                  /\ RedisHas(rdb, k) => c[i][k] = rdb[k] )
                => (c'[i] = c[i] /\ version'[i] = version[i])]_vars

C19_Witness ==
    \E i \in Instances :
      /\ worker[i].pc = "select"
      /\ worker[i].streak >= 2
      /\ c[i][worker[i].last.dataKey] = rdb[worker[i].last.dataKey]
      /\ version[i][worker[i].last.dataKey] = worker[i].last.versionNo

\* C20 (as claimed): no call of Stop and no Get sends on a channel that the
\* worker has closed, so no instance dies of the panic of such a send.
C20_NoSendOnClosed ==
    \A i \in Instances : ~panicked[i]

====
